---- MODULE Spec2Model ----
(***************************************************************************)
(* Model of url_caption (src/app.py, lines 110-176): the web-page image    *)
(* discovery and captioning pipeline.  One request is followed from the    *)
(* form post through the page fetch, the loop over the <img> elements and  *)
(* the per-candidate fetch / decode / caption stages to the rendered       *)
(* result list.  Strings are TLA+ strings and the Python string methods    *)
(* the handler uses are operators computed character by character.         *)
(***************************************************************************)
EXTENDS Integers, Sequences, FiniteSets, TLC

\* ---------------------------------------------------------------- bounds
\* largest number of <img> elements a page of the model holds
MaxImgs == 6

\* ------------------------------------------------------ program constants
\* len(captions) >= 5 : stop after 5
QUOTA == 5
\* raw_image.size[0] * raw_image.size[1] < 200
MIN_AREA == 200
\* requests.get(img_url, timeout=10, ...)
IMG_TIMEOUT == 10

\* ------------------------------------------------- Python values, strings
\* an optional value: <<>> is None / an absent attribute, <<v>> is v
None == <<>>
Some(v) == <<v>>

\* str.startswith
StartsWith(s, p) == Len(s) >= Len(p) /\ SubSeq(s, 1, Len(p)) = p

\* str.endswith
EndsWith(s, p) == Len(s) >= Len(p) /\ SubSeq(s, Len(s) - Len(p) + 1, Len(s)) = p

\* the `in` operator on strings: p occurs somewhere in s
Contains(s, p) == \E i \in 1..(Len(s) - Len(p) + 1) : SubSeq(s, i, i + Len(p) - 1) = p

\* str.rstrip("/") : drop every trailing "/"
RECURSIVE RStripSlash(_)
RStripSlash(s) ==
    IF Len(s) > 0 /\ SubSeq(s, Len(s), Len(s)) = "/"
    THEN RStripSlash(SubSeq(s, 1, Len(s) - 1))
    ELSE s

\* the leading whitespace of s removed
RECURSIVE LStripSpace(_)
LStripSpace(s) ==
    IF Len(s) > 0 /\ SubSeq(s, 1, 1) = " "
    THEN LStripSpace(SubSeq(s, 2, Len(s)))
    ELSE s

\* the longest prefix of s that holds no whitespace
RECURSIVE TakeToken(_)
TakeToken(s) ==
    IF Len(s) = 0 \/ SubSeq(s, 1, 1) = " "
    THEN ""
    ELSE SubSeq(s, 1, 1) \o TakeToken(SubSeq(s, 2, Len(s)))

\* str.split() yields no field at all: split()[0] raises IndexError
SplitIsEmpty(s) == LStripSpace(s) = ""

\* str.split()[0] : the first whitespace-separated field
SplitFirst(s) == TakeToken(LStripSpace(s))

\* Python truthiness of an optional string: None and "" are falsy
Truthy(o) == o # None /\ o[1] # ""

\* a or b
Or(a, b) == IF Truthy(a) THEN a ELSE b

\* ------------------------------------------------------------ the inputs
\* page references posted in the form field url_addr
PageUrls == { "https://example.com/blog", "https://site.com/" }

\* attribute values found in the markup
RawRefs ==
    { "/a.jpg", "//cdn/c.jpg", "http://x/b.jpg",
      "http://x/b.svg", "/i.svg", "//cdn/i.svg?v=1",
      "logo.png", "httplogo.png", "data:image/png;base64,AA" }

\* an <img> element: its src, data-src and srcset attributes
Img(s, d, ss) == [src |-> s, datasrc |-> d, srcset |-> ss]

Elements ==
    { Img(Some(s), None, None) : s \in RawRefs }
    \cup { Img(None, None, None),
           Img(Some(""), Some("//cdn/c.jpg"), None),
           Img(None, Some("/i.svg"), None),
           Img(None, None, Some("  http://x/b.jpg 1x, /big.jpg 2x")),
           Img(None, None, Some("/i.svg 1x")),
           Img(None, None, Some("")),
           Img(Some(""), None, Some("  ")),
           Img(Some("/a.jpg"), None, Some("")) }

\* HTTP status codes of an image response
Statuses == { 200, 404 }

\* pixel dimensions of the images a response body may decode to
Sizes == { <<1, 1>>, <<199, 1>>, <<20, 10>> }

\* a response body: bytes of an image of some size, or not an image
Bodies == { Some(sz) : sz \in Sizes } \cup { None }

\* raw_image.size[0] * raw_image.size[1]
Area(sz) == sz[1] * sz[2]

\* ----------------------------------------------------------------- state
VARIABLES
    pc,         \* position of the handler
    url,        \* request.form["url_addr"]
    img_count,  \* len(img_elements)
    idx,        \* enumerate index of the current <img> element
    raw,        \* the reference chosen from the element's attributes
    img_url,    \* the reference after resolution
    timeout,    \* timeout argument of the network call in flight
    hangs,      \* the contacted host never answers the call in flight
    attempts,   \* requests.get calls issued for the current target
    r,          \* status code of the image response
    raw_image,  \* size of the decoded image
    captions,   \* the accumulated result list
    srcidx,     \* for each entry of captions, the idx it was produced at
    outcome,    \* how the most recent candidate ended
    exc         \* the exception that left the handler, if any

vars == << pc, url, img_count, idx, raw, img_url, timeout, hangs, attempts,
           r, raw_image, captions, srcidx, outcome, exc >>

Init ==
    /\ pc = "idle"
    /\ url = ""
    /\ img_count = 0
    /\ idx = 0
    /\ raw = None
    /\ img_url = None
    /\ timeout = None
    /\ hangs = FALSE
    /\ attempts = 0
    /\ r = None
    /\ raw_image = None
    /\ captions = << >>
    /\ srcidx = << >>
    /\ outcome = "none"
    /\ exc = "none"

\* ------------------------------------------------- steps of the loop body
\* lines 124-126: the reference of an element, by attribute priority src,
\* data-src, first srcset entry.  [raises |-> TRUE] is the IndexError of
\* split()[0] on a srcset without any field.
ChooseRef(el) ==
    LET first == Or(el.src, el.datasrc) IN
    IF ~Truthy(first) /\ el.srcset # None
    THEN IF SplitIsEmpty(el.srcset[1])
         THEN [raises |-> TRUE, ref |-> None]
         ELSE [raises |-> FALSE, ref |-> Some(SplitFirst(el.srcset[1]))]
    ELSE [raises |-> FALSE, ref |-> first]

\* the filter of line 134 with only its suffix test
IsSvg_SuffixOnly(s) == EndsWith(s, ".svg")

\* line 134: img_url.endswith(".svg") or ".svg" in img_url
IsSvg(s) == EndsWith(s, ".svg") \/ Contains(s, ".svg")

\* lines 139-144: the absolute URL of reference s on page u, None when the
\* reference is dropped
Resolve(u, s) ==
    IF StartsWith(s, "//") THEN Some("https:" \o s)
    ELSE IF StartsWith(s, "/") THEN Some(RStripSlash(u) \o s)
    ELSE IF ~StartsWith(s, "http") THEN None
    ELSE Some(s)

\* requests.get accepts only a URL with a scheme it has an adapter for; any
\* other string raises before a connection is made
IsFetchable(s) == StartsWith(s, "http://") \/ StartsWith(s, "https://")

\* the filter of line 153 with <= in place of <
TooSmall_Inclusive(sz) == Area(sz) <= MIN_AREA

\* line 153: the decoded image is too small to be worth a caption
TooSmall(sz) == Area(sz) < MIN_AREA

\* line 167 with an insert at the front in place of the append
AppendResult_Front(c, e) == << e >> \o c

\* line 167: captions.append(...)
AppendResult(c, e) == Append(c, e)

\* the test of line 169 with > in place of >=
QuotaReached_OffByOne(c) == Len(c) > QUOTA

\* line 169: len(captions) >= 5
QuotaReached(c) == Len(c) >= QUOTA

\* the page fetch of line 116 passes no timeout argument
PageTimeout == None

\* the image fetch of line 148 passes timeout=10
ImgTimeout == Some(IMG_TIMEOUT)

\* the locals of one iteration are dead once the iteration ends
ClearLocals ==
    /\ raw' = None
    /\ img_url' = None
    /\ timeout' = None
    /\ hangs' = FALSE
    /\ attempts' = 0
    /\ r' = None

\* a `continue` of the loop (lines 130, 135, 144, 154): on to the next element
Continue(o) ==
    /\ pc' = "loop"
    /\ outcome' = o
    /\ ClearLocals
    /\ UNCHANGED << url, img_count, idx, captions, srcidx, exc >>

\* the handler of lines 172-174 re-raising in place of continuing
ExceptHandler_Reraise ==
    /\ pc' = "raised"
    /\ exc' = "Exception"
    /\ raw_image' = None
    /\ UNCHANGED << url, img_count, idx, raw, img_url, timeout, hangs, attempts,
                    r, captions, srcidx, outcome >>

\* lines 172-174: except Exception: print the error, continue
ExceptHandler ==
    /\ Continue("error")
    /\ raw_image' = None

\* ---------------------------------------------------------------- actions
\* a GET request: the loop is not entered, the empty list is rendered
Get ==
    /\ pc = "idle"
    /\ pc' = "done"
    /\ UNCHANGED << url, img_count, idx, raw, img_url, timeout, hangs, attempts,
                    r, raw_image, captions, srcidx, outcome, exc >>

\* lines 113-116: a POST request, the page fetch is issued
PostRequest(u, h) ==
    /\ pc = "idle"
    /\ url' = u
    /\ timeout' = PageTimeout
    /\ hangs' = h
    /\ attempts' = attempts + 1
    /\ pc' = "page_wait"
    /\ UNCHANGED << img_count, idx, raw, img_url, r, raw_image, captions,
                    srcidx, outcome, exc >>

\* lines 116-120: the page arrives (whatever its status) and holds n <img>
PageResponse(n) ==
    /\ pc = "page_wait"
    /\ ~hangs
    /\ img_count' = n
    /\ idx' = 0
    /\ timeout' = None
    /\ attempts' = 0
    /\ pc' = "loop"
    /\ UNCHANGED << url, raw, img_url, hangs, r, raw_image, captions, srcidx,
                    outcome, exc >>

\* line 116: the page fetch fails; nothing catches the exception
PageError ==
    /\ pc = "page_wait"
    /\ ~hangs
    /\ pc' = "raised"
    /\ exc' = "RequestException"
    /\ UNCHANGED << url, img_count, idx, raw, img_url, timeout, hangs, attempts,
                    r, raw_image, captions, srcidx, outcome >>

\* the host of the call in flight never answers: requests raises Timeout
\* when, and only when, the call was given a timeout
Timeout ==
    /\ pc \in { "page_wait", "img_wait" }
    /\ hangs
    /\ timeout # None
    /\ IF pc = "page_wait"
       THEN /\ pc' = "raised"
            /\ exc' = "RequestException"
            /\ UNCHANGED << url, img_count, idx, raw, img_url, timeout, hangs,
                            attempts, r, raw_image, captions, srcidx, outcome >>
       ELSE ExceptHandler

\* lines 122-144: the next element is taken and its reference chosen,
\* filtered and resolved
LoopNext(el) ==
    /\ pc = "loop"
    /\ idx < img_count
    /\ idx' = idx + 1
    /\ LET c == ChooseRef(el) IN
       IF c.raises
       THEN /\ pc' = "raised"
            /\ exc' = "IndexError"
            /\ UNCHANGED << url, img_count, raw, img_url, timeout, hangs,
                            attempts, r, raw_image, captions, srcidx, outcome >>
       ELSE LET o == IF ~Truthy(c.ref) THEN "no_url"
                     ELSE IF IsSvg(c.ref[1]) THEN "svg"
                     ELSE IF Resolve(url, c.ref[1]) = None THEN "unresolvable"
                     ELSE "fetch"
            IN IF o # "fetch"
               THEN /\ pc' = "loop"
                    /\ outcome' = o
                    /\ raw_image' = None
                    /\ UNCHANGED << url, img_count, raw, img_url, timeout, hangs,
                                    attempts, r, captions, srcidx, exc >>
               ELSE /\ pc' = "img_fetch"
                    /\ raw' = c.ref
                    /\ img_url' = Resolve(url, c.ref[1])
                    /\ outcome' = "none"
                    /\ raw_image' = None
                    /\ UNCHANGED << url, img_count, timeout, hangs, attempts, r,
                                    captions, srcidx, exc >>

\* line 122: the elements are exhausted; line 176 renders the list
LoopEnd ==
    /\ pc = "loop"
    /\ idx = img_count
    /\ pc' = "done"
    /\ UNCHANGED << url, img_count, idx, raw, img_url, timeout, hangs, attempts,
                    r, raw_image, captions, srcidx, outcome, exc >>

\* line 148: requests.get(img_url, timeout=10, ...) is called
ImgRequest(h) ==
    /\ pc = "img_fetch"
    /\ IF IsFetchable(img_url[1])
       THEN /\ pc' = "img_wait"
            /\ timeout' = ImgTimeout
            /\ hangs' = h
            /\ attempts' = attempts + 1
            /\ UNCHANGED << url, img_count, idx, raw, img_url, r, raw_image,
                            captions, srcidx, outcome, exc >>
       ELSE ExceptHandler

\* line 148: the image fetch fails with a network error
ImgError ==
    /\ pc = "img_wait"
    /\ ~hangs
    /\ ExceptHandler

\* lines 148-156: a response with status st and body b arrives; the body is
\* decoded and the size filter applied
ImgResponse(st, b) ==
    /\ pc = "img_wait"
    /\ ~hangs
    /\ IF b = None
       THEN ExceptHandler
       ELSE IF TooSmall(b[1])
            THEN /\ Continue("small")
                 /\ raw_image' = b
            ELSE /\ pc' = "caption"
                 /\ r' = Some(st)
                 /\ raw_image' = b
                 /\ UNCHANGED << url, img_count, idx, raw, img_url, timeout, hangs,
                                 attempts, captions, srcidx, outcome, exc >>

\* lines 159-170: the model is run on the image; on success the entry is
\* appended and the quota checked
Caption(ok) ==
    /\ pc = "caption"
    /\ IF ~ok
       THEN ExceptHandler
       ELSE /\ captions' = AppendResult(captions, [url |-> img_url[1], caption |-> "a caption"])
            /\ srcidx' = AppendResult(srcidx, idx)
            /\ outcome' = "captioned"
            /\ pc' = IF QuotaReached(captions') THEN "done" ELSE "loop"
            /\ ClearLocals
            /\ raw_image' = None
            /\ UNCHANGED << url, img_count, idx, exc >>

Next ==
    \/ Get
    \/ \E u \in PageUrls, h \in BOOLEAN : PostRequest(u, h)
    \/ \E n \in 0..MaxImgs : PageResponse(n)
    \/ PageError
    \/ Timeout
    \/ \E el \in Elements : LoopNext(el)
    \/ LoopEnd
    \/ \E h \in BOOLEAN : ImgRequest(h)
    \/ ImgError
    \/ \E st \in Statuses, b \in Bodies : ImgResponse(st, b)
    \/ \E ok \in BOOLEAN : Caption(ok)

Spec == Init /\ [][Next]_vars

\* -------------------------------------------------------------- properties
\* C1: the accumulated result sequence never holds more than 5 entries, in
\* any state of the loop and in the returned output.
C1_QuotaNeverExceeded == Len(captions) <= QUOTA

\* the run has stopped at the quota with elements of the page left over
C1_StoppedAtQuota == pc = "done" /\ Len(captions) = QUOTA /\ idx < img_count

\* C2: a root-relative reference on the page https://example.com/blog
\* resolves to the origin https://example.com followed by the reference.
C2_RootRelativeOnOrigin ==
    ( /\ pc = "img_fetch"
      /\ url = "https://example.com/blog"
      /\ StartsWith(raw[1], "/")
      /\ ~StartsWith(raw[1], "//") )
    => img_url[1] = "https://example.com" \o raw[1]

\* C3: a reference that contains ".svg" anywhere is never handed to the
\* image fetch, never reaches a later stage and never enters the result
\* sequence, whatever its form.
C3_SvgNeverFetched ==
    /\ [](pc \in { "img_fetch", "img_wait", "caption" } => ~Contains(raw[1], ".svg"))
    /\ [](\A i \in 1..Len(captions) : ~Contains(captions[i].url, ".svg"))
    /\ [][captions' # captions => ~Contains(raw[1], ".svg")]_vars

\* a candidate was dropped by the vector-format filter and the run went on
\* to collect results
C3_SvgSkipped == outcome = "svg" /\ pc = "loop" /\ idx >= 2 /\ Len(captions) >= 1

C5_DiscoveryOrder ==
    /\ [](Len(srcidx) = Len(captions))
    /\ [](\A i, j \in 1..Len(srcidx) : i < j => srcidx[i] < srcidx[j])
    /\ [][ /\ Len(captions') >= Len(captions)
           /\ SubSeq(captions', 1, Len(captions)) = captions
           /\ SubSeq(srcidx', 1, Len(srcidx)) = srcidx ]_vars

\* two entries of different URLs with a skipped element between them
C5_TwoEntriesWithGap ==
    /\ Len(captions) >= 2
    /\ srcidx[2] > srcidx[1] + 1
    /\ captions[1].url # captions[2].url

\* C6: once the page fetch has succeeded nothing makes the handler raise;
\* only a page-fetch failure leaves it as an exception.
C6_OnlyPageFetchRaises == pc = "raised" => exc = "RequestException"

\* C7: every URL handed to the image fetch and every url of a result entry
\* is absolute with scheme http or https.
C7_OnlyAbsoluteHttp ==
    LET Absolute(s) == StartsWith(s, "http://") \/ StartsWith(s, "https://") IN
    /\ pc \in { "img_fetch", "img_wait", "caption" } => Absolute(img_url[1])
    /\ \A i \in 1..Len(captions) : Absolute(captions[i].url)

\* C8: a candidate whose image response is not 2xx is skipped: no step adds
\* an entry to the result sequence for it, whatever its body holds.
C8_Non2xxSkipped ==
    [][captions' # captions => (r # None /\ r[1] >= 200 /\ r[1] < 300)]_vars

\* C9: every network call in flight carries a timeout and is the only call
\* for its target, and the handler is never left without a step to take
\* before it has returned or raised.
C9_CallsBoundedRunTerminates ==
    /\ pc \in { "page_wait", "img_wait" } => (timeout # None /\ attempts <= 1)
    /\ pc \notin { "done", "raised" } => ENABLED Next

\* C10: an image of area below 200 is discarded before the captioning model
\* is run and never enters the result sequence; an image of area 200 or
\* more is not discarded by the size filter.
C10_SizeFilter ==
    /\ [](pc = "caption" => Area(raw_image[1]) >= MIN_AREA)
    /\ [](outcome = "small" => (raw_image # None /\ Area(raw_image[1]) < MIN_AREA))
    /\ [][captions' # captions => (raw_image # None /\ Area(raw_image[1]) >= MIN_AREA)]_vars

\* an image one pixel short of the threshold was discarded after another
\* candidate had passed the filter
C10_JustBelowDiscarded ==
    /\ outcome = "small"
    /\ pc = "loop"
    /\ raw_image = Some(<< 199, 1 >>)
    /\ Len(captions) >= 1

====
